---- MODULE Spec2Model ----
(***************************************************************************)
(* The Streamlit RAG app of GenAI/RAGs/project/streamlit_app: the text     *)
(* loader (utils.py), the DPR encoders (encoder.py), the FAISS retriever   *)
(* (retriever.py), the answer generator (generator.py) and the script      *)
(* app.py that Streamlit runs top to bottom on every (re)run.              *)
(*                                                                         *)
(* Strings are sequences of one-character strings.  Floating point values  *)
(* are fixed-point integers with Unit steps per 1.0.  Python ids are       *)
(* 0-based; TLA+ sequences are 1-based.                                    *)
(***************************************************************************)
EXTENDS Integers, Sequences, FiniteSets, TLC

VARIABLES
    kbFile,          \* data/knowledge_base.txt: [exists, data]
    idxFile,         \* vector_store/faiss.index: [exists, data]
    pc,              \* position of the running script / of the driver
    paragraphs,      \* app.py: paragraphs
    index_exists,    \* app.py:24: what os.path.exists(FAISS_INDEX_PATH) returned
    ctx_embeddings,  \* app.py: ctx_embeddings
    index,           \* app.py: index
    question,        \* app.py: question (st.text_input)
    model_choice,    \* app.py: model_choice (st.selectbox)
    q_embedding,     \* app.py: q_embedding
    top_k,           \* retriever.py: search's top_k argument
    top_indices,     \* app.py: top_indices
    top_context,     \* app.py: top_context
    answer,          \* app.py: answer
    trace,           \* calls made and UI elements shown by the current run, in order
    loaded,          \* pretrained tokenizers/models loaded by generate_answer
    exc,             \* the exception that ended the run or call, or NoExc
    idxs,            \* retriever driver: the index objects made so far, with
                     \* what made each and what search returned on it
    procs            \* concurrent startups: each app process's script variables

vars == <<kbFile, idxFile, pc, paragraphs, index_exists, ctx_embeddings, index,
          question, model_choice, q_embedding, top_k, top_indices, top_context,
          answer, trace, loaded, exc, idxs, procs>>

(***************************************************************************)
(* Bounds of the model.                                                    *)
(***************************************************************************)
MaxTextLen == 6     \* characters of a text file given to load_paragraphs
MaxParas == 4       \* lines of the knowledge base of the running app
MaxRows == 2        \* rows of an embedding matrix given to build_faiss_index
MaxIdx == 3         \* index objects the retriever driver creates
MaxCtxParas == 2    \* paragraphs of a context given to generate_answer
Unit == 5           \* fixed-point steps per 1.0 of a float32

Min(a, b) == IF a < b THEN a ELSE b

Range(s) == {s[i] : i \in 1..Len(s)}

SeqsUpTo(S, n) == UNION {[1..m -> S] : m \in 0..n}

(***************************************************************************)
(* Files.                                                                  *)
(***************************************************************************)
NoFile == [exists |-> FALSE, data |-> <<>>]

File(d) == [exists |-> TRUE, data |-> d]

NoExc == "none"

None == [kind |-> "None"]

(***************************************************************************)
(* utils.py: load_paragraphs.                                              *)
(***************************************************************************)
Whitespace == {" ", "\n"}

\* str.strip(): drop leading whitespace
RECURSIVE LStrip(_)
LStrip(s) ==
    IF s /= <<>> /\ Head(s) \in Whitespace THEN LStrip(Tail(s)) ELSE s

\* str.strip(): drop trailing whitespace
RECURSIVE RStrip(_)
RStrip(s) ==
    IF s /= <<>> /\ s[Len(s)] \in Whitespace
    THEN RStrip(SubSeq(s, 1, Len(s) - 1))
    ELSE s

Strip(s) == RStrip(LStrip(s))

\* text.split('\n'): the pieces between line breaks; cur is the piece being read
RECURSIVE SplitFrom(_, _)
SplitFrom(text, cur) ==
    IF text = <<>> THEN <<cur>>
    ELSE IF Head(text) = "\n" THEN <<cur>> \o SplitFrom(Tail(text), <<>>)
    ELSE SplitFrom(Tail(text), Append(cur, Head(text)))

SplitLines(text) == SplitFrom(text, <<>>)

\* [p.strip() for p in pieces if p.strip()]
RECURSIVE StripNonBlank(_)
StripNonBlank(pieces) ==
    IF pieces = <<>> THEN <<>>
    ELSE IF Strip(Head(pieces)) /= <<>>
         THEN <<Strip(Head(pieces))>> \o StripNonBlank(Tail(pieces))
         ELSE StripNonBlank(Tail(pieces))

\* the first occurrence of each element, in order
RECURSIVE Dedup(_)
Dedup(ps) ==
    IF ps = <<>> THEN <<>>
    ELSE LET init == Dedup(SubSeq(ps, 1, Len(ps) - 1))
         IN  IF ps[Len(ps)] \in Range(init) THEN init ELSE Append(init, ps[Len(ps)])

\* mutant: a loader that drops repeated paragraphs
load_paragraphs_dedup(file) ==
    IF ~file.exists
    THEN [raised |-> "FileNotFoundError", value |-> <<>>]
    ELSE [raised |-> NoExc, value |-> Dedup(StripNonBlank(SplitLines(file.data)))]

\* load_paragraphs(filepath): open() raises FileNotFoundError on a missing file
load_paragraphs(file) ==
    IF ~file.exists
    THEN [raised |-> "FileNotFoundError", value |-> <<>>]
    ELSE [raised |-> NoExc, value |-> StripNonBlank(SplitLines(file.data))]

(***************************************************************************)
(* encoder.py: the DPR encoders.  The pretrained models are deterministic  *)
(* black boxes: here the pooled output depends on the first character.     *)
(***************************************************************************)
\* the embedding dimension (768 for DPR), scaled down
Dim == 2

Dot(x, y) == x[1] * y[1] + x[2] * y[2]

ISqrt(n) == CHOOSE r \in 0..n : r * r <= n /\ (r + 1) * (r + 1) > n

\* np.linalg.norm / Tensor.norm of one row, in the row's own units
Norm(x) == ISqrt(Dot(x, x))

\* x / norm(x), as a fixed-point vector
Normalize(x) == [i \in 1..Dim |-> (x[i] * Unit) \div Norm(x)]

NormalizeRows(m) == [r \in 1..Len(m) |-> Normalize(m[r])]

ctx_encoder(text) ==
    IF text /= <<>> /\ Head(text) = "a" THEN <<6, 8>> ELSE <<4, -3>>

q_encoder(text) ==
    IF text /= <<>> /\ Head(text) = "a" THEN <<3, 4>> ELSE <<8, -6>>

encode_paragraphs(ps) == [i \in 1..Len(ps) |-> Normalize(ctx_encoder(ps[i]))]

encode_question(q) == <<Normalize(q_encoder(q))>>

(***************************************************************************)
(* faiss: IndexFlatIP, add, search, write_index, read_index.               *)
(***************************************************************************)
IndexFlatIP(d) == [kind |-> "IndexFlatIP", d |-> d, ntotal |-> 0, xb |-> <<>>]

RECURSIVE Flatten(_)
Flatten(rows) == IF rows = <<>> THEN <<>> ELSE Head(rows) \o Flatten(Tail(rows))

\* index.add(rows): appends the rows to the index's own storage
IndexAdd(ix, rows) ==
    [ix EXCEPT !.ntotal = @ + Len(rows), !.xb = @ \o Flatten(rows)]

\* the stored vector of 0-based id i
IndexRow(ix, i) == [j \in 1..ix.d |-> ix.xb[i * ix.d + j]]

\* the distance faiss reports in a slot that holds no result (-FLT_MAX)
Lowest == -(Unit * Unit) - 1

\* mutant: the first k ids in storage order, not ranked by score
RECURSIVE TopIds_Unranked(_, _, _)
TopIds_Unranked(score, cand, k) ==
    IF k = 0 THEN <<>>
    ELSE IF cand = {} THEN <<-1>> \o TopIds_Unranked(score, cand, k - 1)
    ELSE LET b == CHOOSE i \in cand : \A j \in cand : i <= j
         IN  <<b>> \o TopIds_Unranked(score, cand \ {b}, k - 1)

\* the k best ids among cand, highest inner product first and the lower id
\* first among equal scores; slots left over hold the label -1
RECURSIVE TopIds(_, _, _)
TopIds(score, cand, k) ==
    IF k = 0 THEN <<>>
    ELSE IF cand = {} THEN <<-1>> \o TopIds(score, cand, k - 1)
    ELSE LET b == CHOOSE i \in cand : \A j \in cand :
                      score[i] > score[j] \/ (score[i] = score[j] /\ i <= j)
         IN  <<b>> \o TopIds(score, cand \ {b}, k - 1)

\* index.search(x, k) for the one query row x: k distances and k labels
IndexSearch(ix, x, k) ==
    LET ids == 0..(ix.ntotal - 1)
        score == [i \in ids |-> Dot(x, IndexRow(ix, i))]
        I == TopIds(score, ids, k)
    IN  [D |-> [r \in 1..k |-> IF I[r] = -1 THEN Lowest ELSE score[I[r]]],
         I |-> I]

IndexHeader(ix) == <<"IxFI", ix.d, ix.ntotal, "is_trained", "METRIC_INNER_PRODUCT">>

\* mutant: a serialisation that stores the vectors at half the resolution
write_index_lossy(ix) ==
    IndexHeader(ix) \o <<Len(ix.xb)>> \o [j \in 1..Len(ix.xb) |-> (ix.xb[j] \div 2) * 2]

\* faiss.write_index: the header, then the vector storage with its length
write_index(ix) == IndexHeader(ix) \o <<Len(ix.xb)>> \o ix.xb

\* faiss.read_index: parses what write_index wrote
read_index(data) ==
    LET h == Len(IndexHeader(IndexFlatIP(Dim)))
    IN  [kind |-> "IndexFlatIP", d |-> data[2], ntotal |-> data[3],
         xb |-> SubSeq(data, h + 2, h + 1 + data[h + 1])]

(***************************************************************************)
(* retriever.py.                                                           *)
(***************************************************************************)
\* search's default top_k
TopKDefault == 3

\* mutant: a build that adds to the index object the previous build left
build_faiss_index_shared(embeddings) ==
    LET dim == IF embeddings = <<>> THEN Dim ELSE Len(embeddings[1])
        old == IF idxs /= <<>> /\ idxs[Len(idxs)].ix /= None
               THEN idxs[Len(idxs)].ix
               ELSE IndexFlatIP(dim)
    IN  IndexAdd(old, NormalizeRows(embeddings))

build_faiss_index(embeddings) ==
    LET dim == IF embeddings = <<>> THEN Dim ELSE Len(embeddings[1])
    IN  IndexAdd(IndexFlatIP(dim), NormalizeRows(embeddings))

\* the file after save_faiss_index(index)
save_faiss_index(ix) == File(write_index(ix))

\* mutant: a load that makes an empty index when there is no file
load_faiss_index_empty(file) ==
    IF file.exists THEN read_index(file.data) ELSE IndexFlatIP(Dim)

load_faiss_index(file) ==
    IF file.exists THEN read_index(file.data) ELSE None

search(ix, query_embedding, k) ==
    LET r == IndexSearch(ix, NormalizeRows(query_embedding)[1], k)
    IN  <<r.D, r.I>>

(***************************************************************************)
(* generator.py: generate_answer.                                          *)
(***************************************************************************)
GPT2 == "gpt2"

BART == "facebook/bart-large"

\* tokenizer(..., truncation=True, max_length=512)
MaxInputLen == 512

\* model.generate(..., max_new_tokens=50)
MaxNewTokens == 50

\* tokenize, generate and decode with the loaded tokenizer and model
Generate(name, prompt) ==
    [model |-> name,
     inputs |-> SubSeq(prompt, 1, Min(Len(prompt), MaxInputLen)),
     max_new_tokens |-> MaxNewTokens]

\* mutant: an unknown model_type silently falls back to GPT-2
generate_answer_default_gpt2(q, context, model_type) ==
    IF model_type = "bart"
    THEN [raised |-> NoExc,
          loads |-> <<"BartTokenizer:" \o BART, "BartForConditionalGeneration:" \o BART>>,
          value |-> Generate(BART,
                      <<"question: ">> \o q \o <<" context: ">> \o context)]
    ELSE [raised |-> NoExc,
          loads |-> <<"AutoTokenizer:" \o GPT2, "AutoModelForCausalLM:" \o GPT2>>,
          value |-> Generate(GPT2,
                      <<"Context: ">> \o context \o <<"\n\nQuestion: ">> \o q
                          \o <<"\nAnswer:">>)]

generate_answer(q, context, model_type) ==
    IF model_type = "gpt2"
    THEN [raised |-> NoExc,
          loads |-> <<"AutoTokenizer:" \o GPT2, "AutoModelForCausalLM:" \o GPT2>>,
          value |-> Generate(GPT2,
                      <<"Context: ">> \o context \o <<"\n\nQuestion: ">> \o q
                          \o <<"\nAnswer:">>)]
    ELSE IF model_type = "bart"
    THEN [raised |-> NoExc,
          loads |-> <<"BartTokenizer:" \o BART, "BartForConditionalGeneration:" \o BART>>,
          value |-> Generate(BART,
                      <<"question: ">> \o q \o <<" context: ">> \o context)]
    ELSE [raised |-> "ValueError", loads |-> <<>>, value |-> None]

(***************************************************************************)
(* app.py: the script.  Streamlit runs it from line 1 on every start and   *)
(* on every interaction; its variables live for one run.                   *)
(***************************************************************************)
\* the knowledge bases an operator writes: one paragraph per line
KBLines == {<<"a">>, <<"b">>}

RECURSIVE Join(_, _)
Join(sep, parts) ==
    IF parts = <<>> THEN <<>>
    ELSE IF Len(parts) = 1 THEN Head(parts)
    ELSE Head(parts) \o sep \o Join(sep, Tail(parts))

KBFiles == {NoFile} \cup {File(Join(<<"\n">>, ls)) : ls \in SeqsUpTo(KBLines, MaxParas)}

\* what st.text_input and st.selectbox can return
Questions == {<<>>, <<"a", "?">>, <<"b", "?">>}

ModelChoices == {"gpt2", "bart"}

\* the run's variables before the script assigns them
NoRun ==
    /\ paragraphs = <<>>
    /\ index_exists = FALSE
    /\ ctx_embeddings = <<>>
    /\ index = None
    /\ question = <<>>
    /\ model_choice = "gpt2"
    /\ q_embedding = <<>>
    /\ top_indices = <<>>
    /\ top_context = <<>>
    /\ answer = None
    /\ trace = <<>>
    /\ loaded = <<>>
    /\ exc = NoExc

Init ==
    /\ kbFile \in KBFiles
    /\ idxFile = NoFile
    /\ pc = "idle"
    /\ top_k = TopKDefault
    /\ idxs = <<>>
    /\ procs = <<>>
    /\ NoRun

\* list[i] of Python is defined for -len <= i < len
PyIndexOk(list, i) == -Len(list) <= i /\ i < Len(list)

PyGet(list, i) == IF i >= 0 THEN list[i + 1] ELSE list[Len(list) + i + 1]

\* line 16: paragraphs = load_paragraphs(KB_PATH)
StartRun ==
    /\ pc = "idle"
    /\ LET r == load_paragraphs(kbFile)
       IN  /\ trace' = <<"load_paragraphs">>
           /\ paragraphs' = r.value
           /\ exc' = r.raised
           /\ pc' = IF r.raised = NoExc THEN "guard" ELSE "crashed"
    /\ UNCHANGED <<kbFile, idxFile, index_exists, ctx_embeddings, index, question,
                   model_choice, q_embedding, top_k, top_indices, top_context,
                   answer, loaded, idxs, procs>>

\* mutant: the error is shown but st.stop() is missing
Guard_NoStop ==
    /\ pc = "guard"
    /\ trace' = IF paragraphs = <<>> THEN trace \o <<"st.error">> ELSE trace
    /\ pc' = "check"
    /\ UNCHANGED <<kbFile, idxFile, paragraphs, index_exists, ctx_embeddings, index,
                   question, model_choice, q_embedding, top_k, top_indices,
                   top_context, answer, loaded, exc, idxs, procs>>

\* lines 17-19: if not paragraphs: st.error(...); st.stop()
Guard ==
    /\ pc = "guard"
    /\ IF paragraphs = <<>>
       THEN /\ trace' = trace \o <<"st.error", "st.stop">>
            /\ pc' = "stopped"
       ELSE /\ trace' = trace
            /\ pc' = "check"
    /\ UNCHANGED <<kbFile, idxFile, paragraphs, index_exists, ctx_embeddings, index,
                   question, model_choice, q_embedding, top_k, top_indices,
                   top_context, answer, loaded, exc, idxs, procs>>

\* mutant: the persisted index is ignored and the corpus re-encoded
CheckIndexFile_AlwaysRebuild ==
    /\ pc = "check"
    /\ index_exists' = idxFile.exists
    /\ pc' = "encode"
    /\ UNCHANGED <<kbFile, idxFile, paragraphs, ctx_embeddings, index, question,
                   model_choice, q_embedding, top_k, top_indices, top_context,
                   answer, trace, loaded, exc, idxs, procs>>

\* line 24: if os.path.exists(FAISS_INDEX_PATH)
CheckIndexFile ==
    /\ pc = "check"
    /\ index_exists' = idxFile.exists
    /\ pc' = IF idxFile.exists THEN "load" ELSE "encode"
    /\ UNCHANGED <<kbFile, idxFile, paragraphs, ctx_embeddings, index, question,
                   model_choice, q_embedding, top_k, top_indices, top_context,
                   answer, trace, loaded, exc, idxs, procs>>

\* lines 25-26: index = load_faiss_index()
LoadIndex ==
    /\ pc = "load"
    /\ index' = load_faiss_index(idxFile)
    /\ trace' = trace \o <<"load_faiss_index">>
    /\ pc' = "ui"
    /\ UNCHANGED <<kbFile, idxFile, paragraphs, index_exists, ctx_embeddings,
                   question, model_choice, q_embedding, top_k, top_indices,
                   top_context, answer, loaded, exc, idxs, procs>>

\* lines 28-29: ctx_embeddings = encode_paragraphs(paragraphs)
EncodeParagraphs ==
    /\ pc = "encode"
    /\ ctx_embeddings' = encode_paragraphs(paragraphs)
    /\ trace' = trace \o <<"encode_paragraphs">>
    /\ pc' = "build"
    /\ UNCHANGED <<kbFile, idxFile, paragraphs, index_exists, index, question,
                   model_choice, q_embedding, top_k, top_indices, top_context,
                   answer, loaded, exc, idxs, procs>>

\* line 30: index = build_faiss_index(ctx_embeddings)
BuildIndex ==
    /\ pc = "build"
    /\ index' = build_faiss_index(ctx_embeddings)
    /\ trace' = trace \o <<"build_faiss_index">>
    /\ pc' = "save"
    /\ UNCHANGED <<kbFile, idxFile, paragraphs, index_exists, ctx_embeddings,
                   question, model_choice, q_embedding, top_k, top_indices,
                   top_context, answer, loaded, exc, idxs, procs>>

\* lines 31-32: save_faiss_index(index)
SaveIndex ==
    /\ pc = "save"
    /\ idxFile' = save_faiss_index(index)
    /\ trace' = trace \o <<"save_faiss_index">>
    /\ pc' = "ui"
    /\ UNCHANGED <<kbFile, paragraphs, index_exists, ctx_embeddings, index,
                   question, model_choice, q_embedding, top_k, top_indices,
                   top_context, answer, loaded, exc, idxs, procs>>

\* lines 35-42: the widgets return the session's values; if question:
Widgets(q, m) ==
    /\ pc = "ui"
    /\ question' = q
    /\ model_choice' = m
    /\ pc' = IF q = <<>> THEN "done" ELSE "encode_question"
    /\ UNCHANGED <<kbFile, idxFile, paragraphs, index_exists, ctx_embeddings, index,
                   q_embedding, top_k, top_indices, top_context, answer, trace,
                   loaded, exc, idxs, procs>>

\* line 44: q_embedding = encode_question(question)
EncodeQuestion ==
    /\ pc = "encode_question"
    /\ q_embedding' = encode_question(question)
    /\ trace' = trace \o <<"encode_question">>
    /\ pc' = "search"
    /\ UNCHANGED <<kbFile, idxFile, paragraphs, index_exists, ctx_embeddings, index,
                   question, model_choice, top_k, top_indices, top_context, answer,
                   loaded, exc, idxs, procs>>

\* line 47: _, top_indices = search(index, q_embedding)
Search ==
    /\ pc = "search"
    /\ trace' = trace \o <<"search">>
    /\ IF index = None
       THEN /\ exc' = "AttributeError"
            /\ pc' = "crashed"
            /\ top_indices' = top_indices
       ELSE /\ top_indices' = search(index, q_embedding, top_k)[2]
            /\ pc' = "contexts"
            /\ exc' = exc
    /\ UNCHANGED <<kbFile, idxFile, paragraphs, index_exists, ctx_embeddings, index,
                   question, model_choice, q_embedding, top_k, top_context, answer,
                   loaded, idxs, procs>>

\* mutant: a bad id is swallowed and the query goes on with an empty context
Contexts_SwallowError ==
    /\ pc = "contexts"
    /\ IF \A r \in 1..Len(top_indices) : PyIndexOk(paragraphs, top_indices[r])
       THEN /\ top_context' =
                   Join(<<" ">>, [r \in 1..Len(top_indices) |->
                                     PyGet(paragraphs, top_indices[r])])
            /\ exc' = exc
       ELSE /\ top_context' = <<>>
            /\ exc' = "IndexError"
    /\ trace' = trace \o <<"st.write(top_context)">>
    /\ pc' = "generate"
    /\ UNCHANGED <<kbFile, idxFile, paragraphs, index_exists, ctx_embeddings, index,
                   question, model_choice, q_embedding, top_k, top_indices, answer,
                   loaded, idxs, procs>>

\* lines 50-53: top_contexts = [paragraphs[i] for i in top_indices]; " ".join
Contexts ==
    /\ pc = "contexts"
    /\ IF \A r \in 1..Len(top_indices) : PyIndexOk(paragraphs, top_indices[r])
       THEN /\ top_context' =
                   Join(<<" ">>, [r \in 1..Len(top_indices) |->
                                     PyGet(paragraphs, top_indices[r])])
            /\ trace' = trace \o <<"st.write(top_context)">>
            /\ pc' = "generate"
            /\ exc' = exc
       ELSE /\ exc' = "IndexError"
            /\ pc' = "crashed"
            /\ UNCHANGED <<top_context, trace>>
    /\ UNCHANGED <<kbFile, idxFile, paragraphs, index_exists, ctx_embeddings, index,
                   question, model_choice, q_embedding, top_k, top_indices, answer,
                   loaded, idxs, procs>>

\* lines 56-58: answer = generate_answer(question, top_context, model_type=model_choice)
Answer ==
    /\ pc = "generate"
    /\ LET r == generate_answer(question, top_context, model_choice)
       IN  /\ loaded' = r.loads
           /\ answer' = r.value
           /\ exc' = r.raised
           /\ IF r.raised = NoExc
              THEN /\ trace' = trace \o <<"generate_answer", "st.write(answer)">>
                   /\ pc' = "done"
              ELSE /\ trace' = trace \o <<"generate_answer">>
                   /\ pc' = "crashed"
    /\ UNCHANGED <<kbFile, idxFile, paragraphs, index_exists, ctx_embeddings, index,
                   question, model_choice, q_embedding, top_k, top_indices,
                   top_context, idxs, procs>>

\* the run is over (end of script, st.stop or an exception): its variables are gone
EndRun ==
    /\ pc \in {"done", "stopped", "crashed"}
    /\ pc' = "idle"
    /\ paragraphs' = <<>>
    /\ index_exists' = FALSE
    /\ ctx_embeddings' = <<>>
    /\ index' = None
    /\ question' = <<>>
    /\ model_choice' = "gpt2"
    /\ q_embedding' = <<>>
    /\ top_indices' = <<>>
    /\ top_context' = <<>>
    /\ answer' = None
    /\ trace' = <<>>
    /\ loaded' = <<>>
    /\ exc' = NoExc
    /\ UNCHANGED <<kbFile, idxFile, top_k, idxs, procs>>

\* between runs the operator rewrites or removes data/knowledge_base.txt
EditKB(f) ==
    /\ pc = "idle"
    /\ f /= kbFile
    /\ kbFile' = f
    /\ UNCHANGED <<idxFile, pc, paragraphs, index_exists, ctx_embeddings, index,
                   question, model_choice, q_embedding, top_k, top_indices,
                   top_context, answer, trace, loaded, exc, idxs, procs>>

Next ==
    \/ StartRun
    \/ Guard
    \/ CheckIndexFile
    \/ LoadIndex
    \/ EncodeParagraphs
    \/ BuildIndex
    \/ SaveIndex
    \/ \E q \in Questions, m \in ModelChoices : Widgets(q, m)
    \/ EncodeQuestion
    \/ Search
    \/ Contexts
    \/ Answer
    \/ EndRun
    \/ \E f \in KBFiles : EditKB(f)

Spec == Init /\ [][Next]_vars

(***************************************************************************)
(* utils.py alone: load_paragraphs called on every small text file.        *)
(***************************************************************************)
TextChars == {"a", "b", " ", "\n"}

TextFiles == {NoFile} \cup {File(t) : t \in SeqsUpTo(TextChars, MaxTextLen)}

InitLoader ==
    /\ kbFile \in TextFiles
    /\ idxFile = NoFile
    /\ pc = "call_load_paragraphs"
    /\ top_k = TopKDefault
    /\ idxs = <<>>
    /\ procs = <<>>
    /\ NoRun

\* paragraphs = load_paragraphs(path), the exception kept if it raises
CallLoadParagraphs ==
    /\ pc = "call_load_paragraphs"
    /\ LET r == load_paragraphs(kbFile)
       IN  /\ paragraphs' = r.value
           /\ exc' = r.raised
    /\ pc' = "load_paragraphs_done"
    /\ UNCHANGED <<kbFile, idxFile, index_exists, ctx_embeddings, index, question,
                   model_choice, q_embedding, top_k, top_indices, top_context,
                   answer, trace, loaded, idxs, procs>>

NextLoader == CallLoadParagraphs

SpecLoader == InitLoader /\ [][NextLoader]_vars

(***************************************************************************)
(* generator.py alone: generate_answer called with every model_type.       *)
(***************************************************************************)
GenContexts == {Join(<<" ">>, ps) : ps \in SeqsUpTo(KBLines, MaxCtxParas)}

GenModelTypes == {"gpt2", "bart", "unsupported", "GPT2", ""}

InitGenerator ==
    /\ kbFile = NoFile
    /\ idxFile = NoFile
    /\ pc = "call_generate_answer"
    /\ paragraphs = <<>>
    /\ index_exists = FALSE
    /\ ctx_embeddings = <<>>
    /\ index = None
    /\ question \in Questions
    /\ model_choice \in GenModelTypes
    /\ q_embedding = <<>>
    /\ top_k = TopKDefault
    /\ top_indices = <<>>
    /\ top_context \in GenContexts
    /\ answer = None
    /\ trace = <<>>
    /\ loaded = <<>>
    /\ exc = NoExc
    /\ idxs = <<>>
    /\ procs = <<>>

\* answer = generate_answer(question, context, model_type), the exception kept
CallGenerateAnswer ==
    /\ pc = "call_generate_answer"
    /\ LET r == generate_answer(question, top_context, model_choice)
       IN  /\ loaded' = r.loads
           /\ answer' = r.value
           /\ exc' = r.raised
    /\ pc' = "generate_answer_done"
    /\ UNCHANGED <<kbFile, idxFile, paragraphs, index_exists, ctx_embeddings, index,
                   question, model_choice, q_embedding, top_k, top_indices,
                   top_context, trace, idxs, procs>>

NextGenerator == CallGenerateAnswer

SpecGenerator == InitGenerator /\ [][NextGenerator]_vars

(***************************************************************************)
(* retriever.py alone: a driver that builds, saves, loads and searches     *)
(* indexes for one embedding matrix, one query and one k.                  *)
(***************************************************************************)
RowSet == {<<3, 4>>, <<6, 8>>, <<4, -3>>}

QuerySet == {<<3, 4>>, <<0, 10>>, <<-4, 3>>}

TopKs == {1, TopKDefault}

\* search has not been called on the index yet
NoRes == <<>>

InitRetriever ==
    /\ kbFile = NoFile
    /\ idxFile = NoFile
    /\ pc = "retriever"
    /\ paragraphs = <<>>
    /\ index_exists = FALSE
    /\ ctx_embeddings \in SeqsUpTo(RowSet, MaxRows)
    /\ index = None
    /\ question = <<>>
    /\ model_choice = "gpt2"
    /\ q_embedding \in {<<q>> : q \in QuerySet}
    /\ top_k \in TopKs
    /\ top_indices = <<>>
    /\ top_context = <<>>
    /\ answer = None
    /\ trace = <<>>
    /\ loaded = <<>>
    /\ exc = NoExc
    /\ idxs = <<>>
    /\ procs = <<>>

DriverUnchanged ==
    UNCHANGED <<kbFile, pc, paragraphs, index_exists, ctx_embeddings, index,
                question, model_choice, q_embedding, top_k, top_indices,
                top_context, answer, trace, loaded, exc, procs>>

\* build_faiss_index(E): a new index object
DriverBuild ==
    /\ pc = "retriever"
    /\ Len(idxs) < MaxIdx
    /\ idxs' = Append(idxs, [by |-> "build_faiss_index",
                             ix |-> build_faiss_index(ctx_embeddings),
                             found |-> NoRes])
    /\ UNCHANGED idxFile
    /\ DriverUnchanged

\* save_faiss_index(index) of an index made earlier
DriverSave(i) ==
    /\ pc = "retriever"
    /\ idxs[i].ix /= None
    /\ idxFile' = save_faiss_index(idxs[i].ix)
    /\ UNCHANGED idxs
    /\ DriverUnchanged

\* load_faiss_index(): an index object, or None
DriverLoad ==
    /\ pc = "retriever"
    /\ Len(idxs) < MaxIdx
    /\ idxs' = Append(idxs, [by |-> "load_faiss_index",
                             ix |-> load_faiss_index(idxFile),
                             found |-> NoRes])
    /\ UNCHANGED idxFile
    /\ DriverUnchanged

\* search(index, q, k) on an index made earlier
DriverSearch(i) ==
    /\ pc = "retriever"
    /\ idxs[i].ix /= None
    /\ idxs[i].found = NoRes
    /\ idxs' = [idxs EXCEPT ![i].found = search(idxs[i].ix, q_embedding, top_k)]
    /\ UNCHANGED idxFile
    /\ DriverUnchanged

NextRetriever ==
    \/ DriverBuild
    \/ \E i \in DOMAIN idxs : DriverSave(i)
    \/ DriverLoad
    \/ \E i \in DOMAIN idxs : DriverSearch(i)

SpecRetriever == InitRetriever /\ [][NextRetriever]_vars

(***************************************************************************)
(* Properties of the app (Spec).                                           *)
(***************************************************************************)
QueryStages == {"encode_question", "search", "contexts", "generate"}

IndexCallNames ==
    {"load_faiss_index", "encode_paragraphs", "build_faiss_index", "save_faiss_index"}

IsIndexCall(e) == e \in IndexCallNames

\* the index calls the current run has made, in order
IndexCalls == SelectSeq(trace, IsIndexCall)

BuildCalls == <<"encode_paragraphs", "build_faiss_index", "save_faiss_index">>

\* the run has passed the build-or-load block of lines 24-32
PastStartup ==
    \/ pc \in {"ui", "done"} \cup QueryStages
    \/ pc = "crashed" /\ exc /= "FileNotFoundError"

\* C1: whenever a query is being answered, the index in use holds exactly one
\* vector per paragraph of the corpus loaded in this run, in corpus order
\* (id i is the vector of corpus[i]).
C1_IndexMatchesCorpus ==
    pc \in QueryStages => index = build_faiss_index(encode_paragraphs(paragraphs))

\* C2: a run that found the index file calls load_faiss_index and none of
\* encode_paragraphs, build_faiss_index, save_faiss_index; a run that did not
\* calls those three in that order, once each, and the file exists afterwards;
\* and once the file exists, a run past the check either took the load branch
\* or is the run that saved it.
C2_BuildOrLoad ==
    /\ pc = "load" => index_exists /\ IndexCalls = <<>>
    /\ pc = "encode" => ~index_exists /\ IndexCalls = <<>>
    /\ pc = "build" => ~index_exists /\ IndexCalls = SubSeq(BuildCalls, 1, 1)
    /\ pc = "save" => ~index_exists /\ IndexCalls = SubSeq(BuildCalls, 1, 2)
    /\ PastStartup /\ index_exists => IndexCalls = <<"load_faiss_index">>
    /\ PastStartup /\ ~index_exists => IndexCalls = BuildCalls /\ idxFile.exists
    /\ (PastStartup \/ pc \in {"load", "encode", "build", "save"}) /\ idxFile.exists
           => index_exists \/ "save_faiss_index" \in Range(trace)

\* a run that took the load branch, after an earlier run built and saved the index
C2_Witness ==
    /\ pc = "ui"
    /\ index_exists
    /\ IndexCalls = <<"load_faiss_index">>
    /\ idxFile.exists

\* the current run's load_paragraphs returned an empty corpus
EmptyCorpusRun ==
    /\ trace /= <<>>
    /\ exc /= "FileNotFoundError"
    /\ paragraphs = <<>>

\* C4: a run whose corpus is empty shows the error and stops; it loads, builds
\* and saves no index and encodes, searches and answers no query.
C4_FailsClosed ==
    EmptyCorpusRun =>
        /\ pc \in {"guard", "stopped"}
        /\ pc = "guard" => trace = <<"load_paragraphs">>
        /\ pc = "stopped" => trace = <<"load_paragraphs", "st.error", "st.stop">>
        /\ exc = NoExc
        /\ index = None
        /\ ctx_embeddings = <<>>
        /\ q_embedding = <<>>
        /\ top_indices = <<>>
        /\ answer = None
        /\ loaded = <<>>

\* a knowledge base of blank content made the run stop
C4_Witness ==
    /\ pc = "stopped"
    /\ kbFile.exists
    /\ paragraphs = <<>>
    /\ "st.error" \in Range(trace)

(***************************************************************************)
(* Properties of load_paragraphs (SpecLoader).                             *)
(***************************************************************************)
\* every character of the text is white space
AllBlank(text) == \A i \in 1..Len(text) : text[i] \in Whitespace

\* C5: on a missing file, or a file whose lines are all blank, load_paragraphs
\* returns the empty sequence and raises nothing.
C5_MissingOrBlankIsEmpty ==
    pc = "load_paragraphs_done" /\ (~kbFile.exists \/ AllBlank(kbFile.data))
        => exc = NoExc /\ paragraphs = <<>>

\* the positions where a line of the text starts
LineStarts(text) == {1} \cup {i + 1 : i \in {j \in 1..Len(text) : text[j] = "\n"}}

\* the positions of the characters of the line starting at s that are not white space
InkOfLine(text, s) ==
    {i \in s..Len(text) :
        /\ text[i] \notin Whitespace
        /\ \A j \in s..i : text[j] /= "\n"}

NonBlankStarts(text) == {s \in LineStarts(text) : InkOfLine(text, s) /= {}}

SetMin(S) == CHOOSE x \in S : \A y \in S : x <= y

SetMax(S) == CHOOSE x \in S : \A y \in S : y <= x

\* the j-th line of the text that is not blank, trimmed
TrimmedLine(text, j) ==
    LET S == NonBlankStarts(text)
        s == CHOOSE u \in S : Cardinality({v \in S : v < u}) = j - 1
        ink == InkOfLine(text, s)
    IN  SubSeq(text, SetMin(ink), SetMax(ink))

\* C6: for an existing file, load_paragraphs returns as many elements as the
\* file has lines that are not blank; the elements are those lines, trimmed,
\* in file order, repeated lines kept.
C6_NonBlankLinesInOrder ==
    pc = "load_paragraphs_done" /\ kbFile.exists =>
        /\ exc = NoExc
        /\ Len(paragraphs) = Cardinality(NonBlankStarts(kbFile.data))
        /\ \A j \in 1..Len(paragraphs) : paragraphs[j] = TrimmedLine(kbFile.data, j)

\* " a", a blank line, "a": two equal paragraphs, one trimmed, the blank line dropped
C6_Witness ==
    /\ pc = "load_paragraphs_done"
    /\ kbFile = File(<<" ", "a", "\n", "\n", "a">>)
    /\ paragraphs = << <<"a">>, <<"a">> >>

(***************************************************************************)
(* Properties of generate_answer (SpecGenerator).                          *)
(***************************************************************************)
\* C7: generate_answer with a model_type other than "gpt2" and "bart" raises
\* the invalid-choice error, having loaded no tokenizer or model and produced
\* no output.
C7_InvalidModelChoice ==
    pc = "generate_answer_done" /\ model_choice \notin {"gpt2", "bart"} =>
        /\ exc = "ValueError"
        /\ loaded = <<>>
        /\ answer = None

\* the call with model_type "unsupported" has returned
C7_Witness ==
    /\ pc = "generate_answer_done"
    /\ model_choice = "unsupported"
    /\ exc = "ValueError"

(***************************************************************************)
(* Properties of the retriever (SpecRetriever).                            *)
(***************************************************************************)
Built == {i \in DOMAIN idxs : idxs[i].by = "build_faiss_index"}

Loaded == {i \in DOMAIN idxs : idxs[i].by = "load_faiss_index"}

Searched == {i \in DOMAIN idxs : idxs[i].found /= NoRes}

\* C3: search on an index built from n rows returns at most min(k, n) results.
C3_AtMostMinKN ==
    \A i \in Built \cap Searched :
        Len(idxs[i].found[2]) <= Min(top_k, Len(ctx_embeddings))

\* C8: load_faiss_index returns None when there is no file and the stored index
\* when there is one, and leaves the file as it was.
C8_LoadAbsentOrStored ==
    [][(Len(idxs') = Len(idxs) + 1 /\ idxs'[Len(idxs')].by = "load_faiss_index") =>
          LET got == idxs'[Len(idxs')].ix
          IN  /\ idxFile' = idxFile
              /\ IF idxFile.exists
                 THEN /\ got /= None
                      /\ write_index(got) = idxFile.data
                      /\ \E i \in DOMAIN idxs : idxs[i].ix = got
                 ELSE got = None]_vars

\* one load found no file and returned None, a later one returned the saved index
C8_Witness ==
    /\ \E i \in Loaded : idxs[i].ix = None
    /\ \E i \in Loaded : idxs[i].ix /= None /\ idxs[i].ix.ntotal = MaxRows
    /\ idxFile.exists

\* C9: search on an index that was built, saved and loaded returns the same
\* ids and scores as search on the built index.
C9_RoundTrip ==
    \A i \in Built \cap Searched : \A j \in Loaded \cap Searched :
        idxs[j].found = idxs[i].found

\* a built index with two rows and its loaded copy have both been searched
C9_Witness ==
    \E i \in Built \cap Searched : \E j \in Loaded \cap Searched :
        /\ idxs[i].ix.ntotal = MaxRows
        /\ idxs[j].ix.ntotal = MaxRows
        /\ idxs[i].found[2][1] /= -1

\* C10: two builds from the same embeddings give indexes on which search
\* returns the same ordered ids; a build neither reads nor changes what an
\* earlier build left (each built index holds exactly the rows of E).
C10_BuildIdempotent ==
    /\ \A i \in Built : idxs[i].ix.ntotal = Len(ctx_embeddings)
    /\ \A i \in Built : \A j \in Built : idxs[i].ix = idxs[j].ix
    /\ \A i \in Built \cap Searched : \A j \in Built \cap Searched :
          idxs[i].found[2] = idxs[j].found[2]

\* two indexes built from the same two rows have both been searched
C10_Witness ==
    \E i \in Built \cap Searched : \E j \in Built \cap Searched :
        /\ i /= j
        /\ Len(ctx_embeddings) = MaxRows
        /\ idxs[i].found[2][1] /= -1

(***************************************************************************)
(* app.py with failing stages: a model or library call of a query stage    *)
(* may raise; nothing in app.py catches it (SpecFaults).                   *)
(***************************************************************************)
\* the call a query stage makes
StageCall(stage) ==
    CASE stage = "encode_question" -> "encode_question"
      [] stage = "search" -> "search"
      [] stage = "generate" -> "generate_answer"

\* lines 44, 47, 57: the stage's call raises and the exception ends the run
StageRaises ==
    /\ pc \in {"encode_question", "search", "generate"}
    /\ trace' = trace \o <<StageCall(pc)>>
    /\ exc' = "RuntimeError"
    /\ pc' = "crashed"
    /\ UNCHANGED <<kbFile, idxFile, paragraphs, index_exists, ctx_embeddings, index,
                   question, model_choice, q_embedding, top_k, top_indices,
                   top_context, answer, loaded, idxs, procs>>

NextFaults ==
    \/ Next
    \/ StageRaises

SpecFaults == Init /\ [][NextFaults]_vars

\* the stages of a request, in the order of app.py:44-58
StageEvents ==
    <<"encode_question", "search", "st.write(top_context)", "generate_answer",
      "st.write(answer)">>

IsStageEvent(e) == e \in Range(StageEvents)

\* the stages the current run has entered, in order
QueryTrace == SelectSeq(trace, IsStageEvent)

IsPrefix(a, b) == Len(a) <= Len(b) /\ a = SubSeq(b, 1, Len(a))

\* C12: with an empty question no stage runs; otherwise the stages run in the
\* order encode_question, search, context display, generate_answer, answer
\* display; a stage that fails ends the run, and no later stage runs.
C12_StagesInOrder ==
    /\ IsPrefix(QueryTrace, StageEvents)
    /\ pc = "encode_question" => QueryTrace = <<>>
    /\ pc = "search" => QueryTrace = SubSeq(StageEvents, 1, 1)
    /\ pc = "contexts" => QueryTrace = SubSeq(StageEvents, 1, 2)
    /\ pc = "generate" => QueryTrace = SubSeq(StageEvents, 1, 3)
    /\ pc = "done" /\ question = <<>> => QueryTrace = <<>>
    /\ pc = "done" /\ question /= <<>> => QueryTrace = StageEvents
    /\ QueryTrace /= <<>> => question /= <<>>
    /\ exc /= NoExc => pc = "crashed"
    /\ pc = "crashed" =>
          /\ exc /= NoExc
          /\ Len(QueryTrace) < Len(StageEvents)
          /\ "st.write(answer)" \notin Range(trace)
          /\ answer = None

\* generate_answer raised after the context was shown: no answer is displayed
C12_Witness ==
    /\ pc = "crashed"
    /\ exc = "RuntimeError"
    /\ QueryTrace = SubSeq(StageEvents, 1, 4)

(***************************************************************************)
(* Ranking and context assembly (Spec).                                    *)
(***************************************************************************)
\* the inner product search reports for id i, the lowest value for the label -1
ScoreOf(i) ==
    IF i = -1 THEN Lowest
    ELSE Dot(Normalize(q_embedding[1]), IndexRow(index, i))

\* the paragraphs app.py:50 selects, in rank order
TopContexts == [r \in 1..Len(top_indices) |-> PyGet(paragraphs, top_indices[r])]

RECURSIVE TotalLen(_, _)
TotalLen(ps, n) == IF n = 0 THEN 0 ELSE TotalLen(ps, n - 1) + Len(ps[n])

\* where the r-th part starts in the parts joined by one separator character
StartOf(ps, r) == TotalLen(ps, r - 1) + r

\* ctx is the parts of ps in order, one space between neighbours
JoinedBySpaces(ctx, ps) ==
    /\ Len(ctx) = TotalLen(ps, Len(ps)) + Len(ps) - 1
    /\ \A r \in 1..Len(ps) :
          /\ SubSeq(ctx, StartOf(ps, r), StartOf(ps, r) + Len(ps[r]) - 1) = ps[r]
          /\ r > 1 => ctx[StartOf(ps, r) - 1] = " "

\* search has returned ids in this run
HasRanking ==
    \/ pc \in {"contexts", "generate"}
    \/ pc \in {"done", "crashed"} /\ top_indices /= <<>>

\* C13: the ids search returns are ordered by non-increasing score, no id left
\* out scores higher than one returned, and the retrieved context is the
\* paragraphs of those ids joined by single spaces in rank order.
C13_BestFirstContext ==
    /\ HasRanking =>
          /\ \A r \in 1..Len(top_indices) : \A t \in 1..Len(top_indices) :
                r < t => ScoreOf(top_indices[r]) >= ScoreOf(top_indices[t])
          /\ \A i \in 0..(index.ntotal - 1) : \A r \in 1..Len(top_indices) :
                i \notin Range(top_indices) => ScoreOf(i) <= ScoreOf(top_indices[r])
    /\ pc = "generate" => JoinedBySpaces(top_context, TopContexts)

\* a four-paragraph corpus whose best match is not its first paragraph
C13_Witness ==
    /\ pc = "generate"
    /\ Len(paragraphs) = MaxParas
    /\ index = build_faiss_index(encode_paragraphs(paragraphs))
    /\ top_indices[1] > top_indices[Len(top_indices)]
    /\ \A r \in 1..Len(top_indices) : top_indices[r] >= 0

\* C14: every id used to index the corpus at app.py:50 is in 0..len(paragraphs)-1.
C14_IdsInRange ==
    pc \in {"contexts", "generate"} =>
        \A r \in 1..Len(top_indices) :
            0 <= top_indices[r] /\ top_indices[r] < Len(paragraphs)

(***************************************************************************)
(* app.py while another process may remove the index file: the load of     *)
(* line 25 is the two steps of retriever.py:25-26 (SpecRace).              *)
(***************************************************************************)
\* retriever.py:25, 27-28: if os.path.exists(path) ... else: return None
LoadIndexExists ==
    /\ pc = "load"
    /\ IF idxFile.exists
       THEN /\ pc' = "load_read"
            /\ UNCHANGED <<index, trace>>
       ELSE /\ index' = None
            /\ trace' = trace \o <<"load_faiss_index">>
            /\ pc' = "ui"
    /\ UNCHANGED <<kbFile, idxFile, paragraphs, index_exists, ctx_embeddings,
                   question, model_choice, q_embedding, top_k, top_indices,
                   top_context, answer, loaded, exc, idxs, procs>>

\* retriever.py:26: return faiss.read_index(path), which raises if the file is gone
LoadIndexRead ==
    /\ pc = "load_read"
    /\ trace' = trace \o <<"load_faiss_index">>
    /\ IF idxFile.exists
       THEN /\ index' = read_index(idxFile.data)
            /\ pc' = "ui"
            /\ exc' = exc
       ELSE /\ exc' = "RuntimeError"
            /\ pc' = "crashed"
            /\ index' = index
    /\ UNCHANGED <<kbFile, idxFile, paragraphs, index_exists, ctx_embeddings,
                   question, model_choice, q_embedding, top_k, top_indices,
                   top_context, answer, loaded, idxs, procs>>

\* another process removes vector_store/faiss.index
RemoveIndexFile ==
    /\ idxFile.exists
    /\ idxFile' = NoFile
    /\ UNCHANGED <<kbFile, pc, paragraphs, index_exists, ctx_embeddings, index,
                   question, model_choice, q_embedding, top_k, top_indices,
                   top_context, answer, trace, loaded, exc, idxs, procs>>

NextRace ==
    \/ StartRun
    \/ Guard
    \/ CheckIndexFile
    \/ LoadIndexExists
    \/ LoadIndexRead
    \/ EncodeParagraphs
    \/ BuildIndex
    \/ SaveIndex
    \/ \E q \in Questions, m \in ModelChoices : Widgets(q, m)
    \/ EncodeQuestion
    \/ Search
    \/ Contexts
    \/ Answer
    \/ EndRun
    \/ RemoveIndexFile

SpecRace == Init /\ [][NextRace]_vars

\* C15: the index a query passes to search is never None, also when the index
\* file is removed between the check of app.py:24 and that of retriever.py:25.
C15_IndexNeverNone ==
    pc = "search" => index /= None

(***************************************************************************)
(* Two app processes starting at the same time (SpecConcurrent).  Each     *)
(* runs lines 16-32 of app.py on its own variables; the knowledge base and *)
(* the index file are shared.  faiss.write_index opens the file for        *)
(* writing, which empties it, and writes it in several pieces at the       *)
(* writer's own offset: here the header, then the vectors.                 *)
(***************************************************************************)
Procs == {"p1", "p2"}

ConcKBFiles ==
    {File(Join(<<"\n">>, ls)) : ls \in {<< <<"a">> >>, << <<"b">> >>, << <<"a">>, <<"b">> >>}}

NewProc ==
    [pc |-> "start", paragraphs |-> <<>>, index_exists |-> FALSE, index |-> None,
     off |-> 0, exc |-> NoExc]

InitConcurrent ==
    /\ kbFile \in ConcKBFiles
    /\ idxFile = NoFile
    /\ pc = "concurrent"
    /\ top_k = TopKDefault
    /\ idxs = <<>>
    /\ NoRun
    /\ procs = [p \in Procs |-> NewProc]

ConcUnchanged ==
    UNCHANGED <<pc, paragraphs, index_exists, ctx_embeddings, index, question,
                model_choice, q_embedding, top_k, top_indices, top_context, answer,
                trace, loaded, exc, idxs>>

HeaderLen == Len(IndexHeader(IndexFlatIP(Dim)))

\* what a byte never written reads as: an empty name in the header's name
\* fields (the fourcc, is_trained, the metric), the number 0 elsewhere
ZeroCell(i) == IF i \in {1, 4, 5} THEN "" ELSE 0

Max(a, b) == IF a > b THEN a ELSE b

\* the file after a write of piece c at offset off
WriteAt(data, off, c) ==
    [i \in 1..Max(Len(data), off + Len(c)) |->
        IF off < i /\ i <= off + Len(c) THEN c[i - off]
        ELSE IF i <= Len(data) THEN data[i]
        ELSE ZeroCell(i)]

\* faiss.read_index accepts the data: the fourcc, and as many vector values as
\* the header's d and ntotal announce
IsIndexFile(data) ==
    /\ Len(data) > HeaderLen
    /\ data[1] = "IxFI"
    /\ data[HeaderLen + 1] = data[2] * data[3]
    /\ Len(data) >= HeaderLen + 1 + data[HeaderLen + 1]

\* lines 16-19: load the corpus; stop if it is empty
PStart(p) ==
    /\ procs[p].pc = "start"
    /\ LET r == load_paragraphs(kbFile)
       IN  procs' = [procs EXCEPT ![p].paragraphs = r.value,
                                  ![p].exc = r.raised,
                                  ![p].pc = IF r.raised /= NoExc THEN "crashed"
                                            ELSE IF r.value = <<>> THEN "stopped"
                                            ELSE "check"]
    /\ UNCHANGED <<kbFile, idxFile>>
    /\ ConcUnchanged

\* mutant: the persisted index is ignored and the corpus re-encoded
PCheck_AlwaysRebuild(p) ==
    /\ procs[p].pc = "check"
    /\ procs' = [procs EXCEPT ![p].index_exists = idxFile.exists,
                              ![p].pc = "build"]
    /\ UNCHANGED <<kbFile, idxFile>>
    /\ ConcUnchanged

\* line 24: if os.path.exists(FAISS_INDEX_PATH)
PCheck(p) ==
    /\ procs[p].pc = "check"
    /\ procs' = [procs EXCEPT ![p].index_exists = idxFile.exists,
                              ![p].pc = IF idxFile.exists THEN "load" ELSE "build"]
    /\ UNCHANGED <<kbFile, idxFile>>
    /\ ConcUnchanged

\* line 25: index = load_faiss_index(); read_index raises on data it cannot parse
PLoad(p) ==
    /\ procs[p].pc = "load"
    /\ IF idxFile.exists /\ ~IsIndexFile(idxFile.data)
       THEN procs' = [procs EXCEPT ![p].exc = "RuntimeError", ![p].pc = "crashed"]
       ELSE procs' = [procs EXCEPT ![p].index = load_faiss_index(idxFile),
                                   ![p].pc = "ready"]
    /\ UNCHANGED <<kbFile, idxFile>>
    /\ ConcUnchanged

\* lines 28-30: encode the corpus and build the index, in the process's memory
PBuild(p) ==
    /\ procs[p].pc = "build"
    /\ procs' = [procs EXCEPT
                    ![p].index = build_faiss_index(encode_paragraphs(procs[p].paragraphs)),
                    ![p].pc = "open"]
    /\ UNCHANGED <<kbFile, idxFile>>
    /\ ConcUnchanged

\* line 31, faiss.write_index: the file is opened for writing and emptied
PSaveOpen(p) ==
    /\ procs[p].pc = "open"
    /\ idxFile' = File(<<>>)
    /\ procs' = [procs EXCEPT ![p].off = 0, ![p].pc = "write"]
    /\ UNCHANGED kbFile
    /\ ConcUnchanged

\* line 31, faiss.write_index: the next piece is written at the writer's offset
PSaveWrite(p) ==
    /\ procs[p].pc = "write"
    /\ LET bytes == write_index(procs[p].index)
           c == IF procs[p].off = 0
                THEN SubSeq(bytes, 1, HeaderLen)
                ELSE SubSeq(bytes, HeaderLen + 1, Len(bytes))
       IN  /\ idxFile' = File(WriteAt(idxFile.data, procs[p].off, c))
           /\ procs' = [procs EXCEPT
                           ![p].off = @ + Len(c),
                           ![p].pc = IF procs[p].off + Len(c) = Len(bytes)
                                     THEN "ready" ELSE "write"]
    /\ UNCHANGED kbFile
    /\ ConcUnchanged

\* the operator rewrites the knowledge base while a process has yet to read it
ConcEditKB(f) ==
    /\ \E p \in Procs : procs[p].pc = "start"
    /\ f /= kbFile
    /\ kbFile' = f
    /\ UNCHANGED <<idxFile, procs>>
    /\ ConcUnchanged

NextConcurrent ==
    \/ \E p \in Procs : PStart(p)
    \/ \E p \in Procs : PCheck(p)
    \/ \E p \in Procs : PLoad(p)
    \/ \E p \in Procs : PBuild(p)
    \/ \E p \in Procs : PSaveOpen(p)
    \/ \E p \in Procs : PSaveWrite(p)
    \/ \E f \in ConcKBFiles : ConcEditKB(f)

SpecConcurrent == InitConcurrent /\ [][NextConcurrent]_vars

\* the process took the build branch and has saved its index
HasSaved(p) == procs[p].pc = "ready" /\ procs[p].index_exists = FALSE

AllDone == \A p \in Procs : procs[p].pc \in {"ready", "crashed", "stopped"}

\* every writer has finished and the file is the complete index of none of them
FileCorrupt ==
    /\ AllDone
    /\ idxFile.exists
    /\ \E p \in Procs : HasSaved(p)
    /\ \A p \in Procs : HasSaved(p) => idxFile.data /= write_index(procs[p].index)

\* C11: nothing keeps two processes from both finding no index file, both
\* rebuilding and both writing it; the file left behind is corrupt only in
\* that case: both processes passed the check while no file existed and both
\* wrote, with different indexes.  (C11_Witness: such a file is reached.)
C11_UnguardedRebuild ==
    /\ \A p \in Procs :
          /\ procs[p].pc \in {"build", "open", "write"} => ~procs[p].index_exists
          /\ procs[p].pc = "load" => procs[p].index_exists
    /\ FileCorrupt =>
          /\ \A p \in Procs : HasSaved(p)
          /\ \E p \in Procs : \E q \in Procs : procs[p].index /= procs[q].index

\* both processes have saved and the file equals neither one's complete index
C11_Witness ==
    /\ FileCorrupt
    /\ \A p \in Procs : HasSaved(p)
    /\ \A p \in Procs : idxFile.data /= write_index(procs[p].index)

====
